---- MODULE Spec2Model ----
(***************************************************************************)
(* Model of A1.py: the lambda-calculus tokenizer (parse_tokens), the       *)
(* recursive-descent Parser, the renderer (reconstruct_expr / print_tree)  *)
(* and the line-by-line driver read_lines_from_txt_output_parse_tree.      *)
(*                                                                         *)
(* A Python string is a sequence of one-character strings; indices are     *)
(* 0-based as in the source, so s[i] of the source is At(s, i).            *)
(***************************************************************************)
EXTENDS Integers, Sequences, FiniteSets, TLC

VARIABLES s, i, tokens, open_parens, pc, diag, tree, pos, err, out, lineNo, numLines

vars == <<s, i, tokens, open_parens, pc, diag, tree, pos, err, out, lineNo, numLines>>

\* Bounds of the model.
MaxLen == 5
MaxLines == 2

----------------------------------------------------------------------------
\* Character classes

alphabet_chars ==
    {"a","b","c","d","e","f","g","h","i","j","k","l","m",
     "n","o","p","q","r","s","t","u","v","w","x","y","z",
     "A","B","C","D","E","F","G","H","I","J","K","L","M",
     "N","O","P","Q","R","S","T","U","V","W","X","Y","Z"}

numeric_chars == {"0","1","2","3","4","5","6","7","8","9"}

var_chars == alphabet_chars \cup numeric_chars

all_valid_chars == var_chars \cup {"(", ")", ".", "\\"}

\* Letters outside ASCII: str.isalpha() accepts them, alphabet_chars does not.
NonAsciiLetters == {"é"}

WhitespaceChars == {" ", "\t"}

isspace(c) == c \in WhitespaceChars

isalpha(c) == c \in alphabet_chars \cup NonAsciiLetters

\* str.isalpha() of a whole string: non-empty and every character a letter.
str_isalpha(t) == Len(t) > 0 /\ \A k \in 1..Len(t) : isalpha(t[k])

At(str, k) == str[k + 1]

\* str.index(c): 0-based index of the first occurrence (c occurs in str).
index(str, c) == (CHOOSE k \in 1..Len(str) : str[k] = c /\ \A j \in 1..(k-1) : str[j] # c) - 1

\* list.count(tok)
count(toks, tok) == Cardinality({k \in 1..Len(toks) : toks[k] = tok})

is_valid_var_name(name) ==
    IF Len(name) = 0 THEN FALSE
    ELSE IF name[1] \notin alphabet_chars THEN FALSE
    ELSE \A k \in 1..Len(name) : name[k] \in all_valid_chars

\* str.strip(): drop leading and trailing whitespace.
RECURSIVE lstrip(_)
lstrip(str) == IF Len(str) > 0 /\ isspace(str[1]) THEN lstrip(Tail(str)) ELSE str

RECURSIVE rstrip(_)
rstrip(str) ==
    IF Len(str) > 0 /\ isspace(str[Len(str)])
    THEN rstrip(SubSeq(str, 1, Len(str) - 1)) ELSE str

strip(str) == rstrip(lstrip(str))

----------------------------------------------------------------------------
\* Inputs

\* The characters the exhaustive inputs are built from: a letter, a digit, the
\* four punctuation symbols, a blank, an invalid character, a non-ASCII letter.
Sigma == {"x", "1", "(", ")", ".", "\\", " ", "#", "é"}

Strs(n) == UNION {[1..k -> Sigma] : k \in 0..n}

\* The example lines of the documentation, longer than the exhaustive bound.
Scenario1 == <<"\\", "x", ".", "x">>
Scenario2 == <<"(", "\\", "x", ".", "x", ")", "y">>
Scenario3 == <<"x", " ", "y", " ", "z">>
Scenario4 == <<"(", "x">>
Scenario5 == <<"\\", " ", "x", ".", "x">>
LongName == <<"\\", "x", "y", ".", "x">>
NoBody == <<"(", "\\", "x", " ", ")">>
TagName == <<"l", "a", "m", "b", "d", "a">>
FourTerms == <<"x", "(", "y", ")", "z", "(", "x", " ", "y", ")">>

Examples ==
    {Scenario1, Scenario2, Scenario3, Scenario4, Scenario5, LongName, NoBody,
     TagName, FourTerms}

Inputs == Strs(MaxLen) \cup Examples

Lines == Inputs

----------------------------------------------------------------------------
\* Nodes

None == <<>>

Node(elem) == [elem |-> elem, children |-> <<>>]

add_child_node(node, child) == [node EXCEPT !.children = Append(@, child)]

ApplicationTag ==
    <<"a","p","p","l","i","c","a","t","i","o","n"," ","f","u","n","c","t","i","o","n">>
LambdaTag == <<"l","a","m","b","d","a">>
ParensTag == <<"p","a","r","e","n","s">>
AppTag == <<"a","p","p">>

NoDiag == [kind |-> "none", index |-> 0]
NoErr == [kind |-> "none", expected |-> None, found |-> None]

----------------------------------------------------------------------------
\* parse_tokens: one action per branch of the while loop

Scanning == pc = "scan" /\ i < Len(s)

char == At(s, i)

\* End (exclusive, 0-based) of the maximal run of var_chars starting at k.
RECURSIVE run_end(_, _)
run_end(str, k) == IF k < Len(str) /\ At(str, k) \in var_chars THEN run_end(str, k + 1) ELSE k

slice(str, a, b) == SubSeq(str, a + 1, b)

Reject(kind, idx) ==
    /\ pc' = "rejected"
    /\ diag' = [kind |-> kind, index |-> idx]

SkipWhitespace ==
    /\ Scanning
    /\ isspace(char)
    /\ i' = i + 1
    /\ UNCHANGED <<s, tokens, open_parens, pc, diag, tree, pos, err, out, lineNo, numLines>>

InvalidChar ==
    /\ Scanning
    /\ ~isspace(char)
    /\ char \notin all_valid_chars
    /\ Reject("InvalidCharacter", i)
    /\ UNCHANGED <<s, i, tokens, open_parens, tree, pos, err, out, lineNo, numLines>>

ScanVariable ==
    /\ Scanning
    /\ ~isspace(char)
    /\ char \in all_valid_chars
    /\ isalpha(char)
    /\ LET j == run_end(s, i + 1)
           var_name == slice(s, i, j)
       IN /\ i' = j
          /\ IF is_valid_var_name(var_name)
             THEN /\ tokens' = Append(tokens, var_name)
                  /\ UNCHANGED <<pc, diag>>
             ELSE /\ Reject("InvalidVariableName", j)
                  /\ UNCHANGED tokens
    /\ UNCHANGED <<s, open_parens, tree, pos, err, out, lineNo, numLines>>

OpenParen ==
    /\ Scanning
    /\ char = "("
    /\ tokens' = Append(tokens, <<char>>)
    /\ open_parens' = open_parens + 1
    /\ i' = i + 1
    /\ IF i + 1 < Len(s) /\ At(s, i + 1) = ")"
       THEN Reject("MissingExpressionInsideParentheses", i + 1)
       ELSE UNCHANGED <<pc, diag>>
    /\ UNCHANGED <<s, tree, pos, err, out, lineNo, numLines>>

CloseParen ==
    /\ Scanning
    /\ char = ")"
    /\ IF open_parens = 0
       THEN /\ Reject("UnmatchedClosingBracket", i)
            /\ UNCHANGED <<tokens, open_parens, i>>
       ELSE /\ tokens' = Append(tokens, <<char>>)
            /\ open_parens' = open_parens - 1
            /\ i' = i + 1
            /\ UNCHANGED <<pc, diag>>
    /\ UNCHANGED <<s, tree, pos, err, out, lineNo, numLines>>

Backslash ==
    /\ Scanning
    /\ char = "\\"
    /\ LET index_backslash == index(s, char)
           j == run_end(s, i + 2)
           var_name == slice(s, i + 1, j)
       IN IF i + 1 < Len(s) /\ isspace(At(s, i + 1))
          THEN /\ Reject("InvalidSpaceAfterBackslash", i)
               /\ UNCHANGED <<tokens, i>>
          ELSE IF i + 1 = Len(s) \/ ~isalpha(At(s, i + 1))
          THEN /\ Reject("BackslashNotFollowedByVariable", i)
               /\ UNCHANGED <<tokens, i>>
          ELSE IF ~is_valid_var_name(var_name)
          THEN /\ Reject("InvalidVariableNameAfterBackslash", j)
               /\ i' = j
               /\ UNCHANGED tokens
          ELSE /\ tokens' = tokens \o << <<"\\">>, var_name >>
               /\ i' = j
               /\ IF j >= Len(s) \/ (At(s, j) \notin all_valid_chars /\ ~isspace(At(s, j)))
                  THEN Reject("MissingExpressionAfterLambda", index_backslash)
                  ELSE UNCHANGED <<pc, diag>>
    /\ UNCHANGED <<s, open_parens, tree, pos, err, out, lineNo, numLines>>

\* tokens[-1] not in var_chars: var_chars is a list of one-character strings,
\* so only a one-character token can be a member of it.
last_in_var_chars(toks) ==
    LET last == toks[Len(toks)] IN Len(last) = 1 /\ last[1] \in var_chars

Dot ==
    /\ Scanning
    /\ char = "."
    /\ IF Len(tokens) = 0 \/ ~last_in_var_chars(tokens) \/ At(s, i - 1) \notin var_chars
       THEN /\ Reject("MustHaveVariableBeforeDot", i)
            /\ UNCHANGED <<tokens, i>>
       ELSE /\ tokens' = Append(tokens, <<"(">>)
            /\ i' = i + 1
            /\ IF i + 1 >= Len(s) \/ At(s, i + 1) = ")"
               THEN Reject("MissingExpressionAfterDot", i + 1)
               ELSE UNCHANGED <<pc, diag>>
    /\ UNCHANGED <<s, open_parens, tree, pos, err, out, lineNo, numLines>>

\* The final else of the loop: a valid character that starts no token (a digit).
OtherChar ==
    /\ Scanning
    /\ ~isspace(char)
    /\ char \in all_valid_chars
    /\ ~isalpha(char)
    /\ char \notin {"(", ")", "\\", "."}
    /\ Reject("InvalidCharacter", i)
    /\ UNCHANGED <<s, i, tokens, open_parens, tree, pos, err, out, lineNo, numLines>>

\* Mutant of pad: one ')' too few.
pad_short(toks, n) == toks \o [k \in 1..(n - 1) |-> <<")">>]

\* tokens += [')'] * n
RECURSIVE pad(_, _)
pad(toks, n) == IF n <= 0 THEN toks ELSE pad(Append(toks, <<")">>), n - 1)

\* Mutant of EndOfInput: the open_parens > 0 check is missing.
EndOfInput_unchecked ==
    /\ pc = "scan"
    /\ i >= Len(s)
    /\ LET opens == count(tokens, <<"(">>)
           close_parens == count(tokens, <<")">>)
           padded == IF opens > close_parens
                     THEN pad(tokens, opens - close_parens) ELSE tokens
       IN /\ open_parens' = opens
          /\ tokens' = padded
          /\ pc' = IF Len(padded) > 0 THEN "tokens" ELSE "rejected"
          /\ UNCHANGED diag
    /\ UNCHANGED <<s, i, tree, pos, err, out, lineNo, numLines>>

EndOfInput ==
    /\ pc = "scan"
    /\ i >= Len(s)
    /\ IF open_parens > 0
       THEN /\ Reject("UnmatchedOpeningBracket", index(s, "("))
            /\ UNCHANGED <<tokens, open_parens>>
       ELSE LET opens == count(tokens, <<"(">>)
                close_parens == count(tokens, <<")">>)
                padded == IF opens > close_parens
                          THEN pad(tokens, opens - close_parens) ELSE tokens
            IN /\ open_parens' = opens
               /\ tokens' = padded
               /\ pc' = IF Len(padded) > 0 THEN "tokens" ELSE "rejected"
               /\ UNCHANGED diag
    /\ UNCHANGED <<s, i, tree, pos, err, out, lineNo, numLines>>

----------------------------------------------------------------------------
\* Parser: each method is an operator over (tokens, pos) returning the node
\* built and the new cursor, or the SyntaxError raised.

Ok(node, p) == [ok |-> TRUE, node |-> node, pos |-> p, err |-> NoErr]

Raise(kind, expected, found, p) ==
    [ok |-> FALSE, node |-> Node(None), pos |-> p,
     err |-> [kind |-> kind, expected |-> expected, found |-> found]]

current_token(toks, p) == IF p < Len(toks) THEN toks[p + 1] ELSE None

advance(toks, p) == IF p < Len(toks) THEN p + 1 ELSE p

expect(toks, p, expected_value) ==
    LET token == current_token(toks, p)
    IN IF token = None \/ token # expected_value
       THEN Raise("Expected", expected_value, token, p)
       ELSE Ok(Node(None), advance(toks, p))

parse_var(toks, p) ==
    LET token == current_token(toks, p)
    IN IF token # None /\ str_isalpha(token)
       THEN Ok(Node(token), advance(toks, p))
       ELSE Raise("ExpectedVariable", None, token, p)

\* Mutant of application_node: the two children in the wrong order.
application_node_swapped(left, right) ==
    add_child_node(add_child_node(Node(ApplicationTag), right), left)

\* app_node = Node('application function') with children left, right
application_node(left, right) ==
    add_child_node(add_child_node(Node(ApplicationTag), left), right)

\* Mutant of paren_node: the ')' marker is not added.
paren_node_no_close(expr) ==
    add_child_node(add_child_node(Node(ParensTag), Node(<<"(">>)), expr)

\* paren_node = Node('parens') with children '(', expr, ')'
paren_node(expr) ==
    add_child_node(add_child_node(add_child_node(Node(ParensTag), Node(<<"(">>)), expr),
                   Node(<<")">>))

\* lambda_node = Node('lambda') with children '\\', var_node, expr_node
lambda_node(var_node, expr_node) ==
    add_child_node(add_child_node(add_child_node(Node(LambdaTag), Node(<<"\\">>)), var_node),
                   expr_node)

RECURSIVE parse_expr(_, _)
RECURSIVE parse_expr_loop(_, _, _)
RECURSIVE parse_term(_, _)
RECURSIVE parse_paren_expr(_, _)
RECURSIVE parse_lambda_expr(_, _)

parse_expr(toks, p) ==
    LET left == parse_term(toks, p)
    IN IF ~left.ok THEN left ELSE parse_expr_loop(toks, left.node, left.pos)

\* The while True loop of parse_expr.
parse_expr_loop(toks, left, p) ==
    LET token == current_token(toks, p)
    IN IF token = None \/ token = <<")">>
       THEN Ok(left, p)
       ELSE LET right == parse_term(toks, p)
            IN IF ~right.ok THEN right
               ELSE parse_expr_loop(toks, application_node(left, right.node), right.pos)

parse_term(toks, p) ==
    LET token == current_token(toks, p)
    IN IF token = None THEN Raise("UnexpectedEndOfInput", None, None, p)
       ELSE IF str_isalpha(token) THEN parse_var(toks, p)
       ELSE IF token = <<"\\">> THEN parse_lambda_expr(toks, p)
       ELSE IF token = <<"(">> THEN parse_paren_expr(toks, p)
       ELSE Raise("UnexpectedToken", None, token, p)

parse_paren_expr(toks, p) ==
    LET open == expect(toks, p, <<"(">>)
    IN IF ~open.ok THEN open
       ELSE LET expr == parse_expr(toks, open.pos)
            IN IF ~expr.ok THEN expr
               ELSE LET close == expect(toks, expr.pos, <<")">>)
                    IN IF ~close.ok THEN close
                       ELSE Ok(paren_node(expr.node), close.pos)

parse_lambda_expr(toks, p) ==
    LET bs == expect(toks, p, <<"\\">>)
    IN IF ~bs.ok THEN bs
       ELSE LET var_node == parse_var(toks, bs.pos)
            IN IF ~var_node.ok THEN var_node
               ELSE LET expr_node == parse_expr(toks, var_node.pos)
                    IN IF ~expr_node.ok THEN expr_node
                       ELSE Ok(lambda_node(var_node.node, expr_node.node), expr_node.pos)

parse(toks) == parse_expr(toks, 0)

----------------------------------------------------------------------------
\* Renderer

\* sep.join(parts)
RECURSIVE join(_, _)
join(sep, parts) ==
    IF Len(parts) = 0 THEN <<>>
    ELSE IF Len(parts) = 1 THEN parts[1]
    ELSE parts[1] \o sep \o join(sep, Tail(parts))

RECURSIVE reconstruct_expr(_)

\* Mutant of reconstruct_expr: a node with an unknown tag renders as its tag.
reconstruct_expr_tag(node) ==
    IF Len(node.children) = 0 THEN node.elem
    ELSE IF node.elem = AppTag
    THEN join(<<"_">>, [k \in 1..Len(node.children) |-> reconstruct_expr(node.children[k])])
    ELSE IF node.elem = LambdaTag
    THEN <<"\\", "_">> \o reconstruct_expr(node.children[2]) \o <<"_">>
         \o reconstruct_expr(node.children[3])
    ELSE IF node.elem = ParensTag
    THEN <<"(", "_">> \o reconstruct_expr(node.children[2]) \o <<"_", ")">>
    ELSE node.elem

reconstruct_expr(node) ==
    IF Len(node.children) = 0 THEN node.elem
    ELSE IF node.elem = AppTag
    THEN join(<<"_">>, [k \in 1..Len(node.children) |-> reconstruct_expr(node.children[k])])
    ELSE IF node.elem = LambdaTag
    THEN <<"\\", "_">> \o reconstruct_expr(node.children[2]) \o <<"_">>
         \o reconstruct_expr(node.children[3])
    ELSE IF node.elem = ParensTag
    THEN <<"(", "_">> \o reconstruct_expr(node.children[2]) \o <<"_", ")">>
    ELSE join(<<"_">>, [k \in 1..Len(node.children) |-> reconstruct_expr(node.children[k])])

\* "----" * level
RECURSIVE indent(_)
indent(level) == IF level = 0 THEN <<>> ELSE <<"-", "-", "-", "-">> \o indent(level - 1)

RECURSIVE concat(_)
concat(seqs) == IF Len(seqs) = 0 THEN <<>> ELSE seqs[1] \o concat(Tail(seqs))

\* The lines print_tree writes, in order.
RECURSIVE print_tree(_, _)
print_tree(node, level) ==
    << indent(level) \o reconstruct_expr(node) >>
    \o concat([k \in 1..Len(node.children) |-> print_tree(node.children[k], level + 1)])

----------------------------------------------------------------------------
\* The body of the driver's loop: tokens = parse_tokens(l); if tokens: parse, print

ParseTokens ==
    /\ pc = "tokens"
    /\ LET r == parse(tokens)
       IN /\ pos' = r.pos
          /\ IF r.ok
             THEN /\ tree' = r.node
                  /\ pc' = "parsed"
                  /\ UNCHANGED err
             ELSE /\ err' = r.err
                  /\ pc' = "raised"
                  /\ UNCHANGED tree
    /\ UNCHANGED <<s, i, tokens, open_parens, diag, out, lineNo, numLines>>

PrintTree ==
    /\ pc = "parsed"
    /\ out' = print_tree(tree, 0)
    /\ pc' = "printed"
    /\ UNCHANGED <<s, i, tokens, open_parens, diag, tree, pos, err, lineNo, numLines>>

\* One call of parse_tokens on an arbitrary string, followed by the parser
\* and the renderer when it returns tokens.
Init ==
    /\ s \in Inputs
    /\ i = 0
    /\ tokens = <<>>
    /\ open_parens = 0
    /\ pc = "scan"
    /\ diag = NoDiag
    /\ tree = Node(None)
    /\ pos = 0
    /\ err = NoErr
    /\ out = <<>>
    /\ lineNo = 0
    /\ numLines = 0

Next ==
    \/ SkipWhitespace
    \/ InvalidChar
    \/ ScanVariable
    \/ OpenParen
    \/ CloseParen
    \/ Backslash
    \/ Dot
    \/ OtherChar
    \/ EndOfInput
    \/ ParseTokens
    \/ PrintTree

Spec == Init /\ [][Next]_vars

----------------------------------------------------------------------------
\* read_lines_from_txt_output_parse_tree: the for loop over the stripped lines

\* for l in lines: the next line is read (stripped by read_lines_from_txt)
\* and parse_tokens starts on it.
NextLine ==
    /\ pc = "loop"
    /\ lineNo < numLines
    /\ \E raw \in Lines :
        /\ s' = strip(raw)
        /\ i' = 0
        /\ tokens' = <<>>
        /\ open_parens' = 0
        /\ pc' = "scan"
        /\ lineNo' = lineNo + 1
    /\ UNCHANGED <<diag, tree, pos, err, out, numLines>>

\* The end of one iteration: parse_tokens returned False (if tokens: is not
\* taken) or print_tree returned. What the iteration leaves behind is dead
\* (every name is assigned again before it is read), so it is cleared here.
NextIteration ==
    /\ pc \in {"rejected", "printed"}
    /\ pc' = "loop"
    /\ s' = <<>>
    /\ i' = 0
    /\ tokens' = <<>>
    /\ open_parens' = 0
    /\ diag' = NoDiag
    /\ tree' = Node(None)
    /\ pos' = 0
    /\ err' = NoErr
    /\ out' = <<>>
    /\ UNCHANGED <<lineNo, numLines>>

\* The loop ends after the last line.
EndOfLines ==
    /\ pc = "loop"
    /\ lineNo = numLines
    /\ pc' = "done"
    /\ UNCHANGED <<s, i, tokens, open_parens, diag, tree, pos, err, out, lineNo, numLines>>

BatchInit ==
    /\ s = <<>>
    /\ i = 0
    /\ tokens = <<>>
    /\ open_parens = 0
    /\ pc = "loop"
    /\ diag = NoDiag
    /\ tree = Node(None)
    /\ pos = 0
    /\ err = NoErr
    /\ out = <<>>
    /\ lineNo = 0
    /\ numLines \in 0..MaxLines

BatchNext ==
    \/ NextLine
    \/ NextIteration
    \/ EndOfLines
    \/ SkipWhitespace
    \/ InvalidChar
    \/ ScanVariable
    \/ OpenParen
    \/ CloseParen
    \/ Backslash
    \/ Dot
    \/ OtherChar
    \/ EndOfInput
    \/ ParseTokens
    \/ PrintTree

BatchSpec == BatchInit /\ [][BatchNext]_vars

----------------------------------------------------------------------------
\* Properties

\* parse_tokens returned a token list (a truthy value).
Returned == pc \in {"tokens", "parsed", "raised", "printed"}

Parsed == pc \in {"parsed", "printed"}

\* A Variable token of the data model: a letter, then letters or digits.
IsVariableToken(tok) ==
    /\ Len(tok) > 0
    /\ tok[1] \in alphabet_chars
    /\ \A k \in 1..Len(tok) : tok[k] \in var_chars

IsLeaf(node, elem) == node.elem = elem /\ Len(node.children) = 0

RECURSIVE HasTag(_, _)
HasTag(node, tag) ==
    /\ Len(node.children) > 0
    /\ \/ node.elem = tag
       \/ \E k \in 1..Len(node.children) : HasTag(node.children[k], tag)

\* C1: `(\x.x)y` is accepted and parses to an Application whose function
\* position is the Grouped abstraction binding x and whose argument is the
\* variable leaf y, so y lies outside the abstraction's body.
C1_Scenario2IsApplication ==
    (s = Scenario2 /\ pc \in {"rejected", "raised", "parsed", "printed"}) =>
        /\ Parsed
        /\ tree.elem = ApplicationTag
        /\ Len(tree.children) = 2
        /\ tree.children[1].elem = ParensTag
        /\ Len(tree.children[1].children) = 3
        /\ tree.children[1].children[2].elem = LambdaTag
        /\ Len(tree.children[1].children[2].children) = 3
        /\ IsLeaf(tree.children[1].children[2].children[2], <<"x">>)
        /\ IsLeaf(tree.children[2], <<"y">>)

\* 1-based index of the ')' that closes the group entered before position k
\* (depth groups are open at k), or 0 when there is none.
RECURSIVE MatchClose(_, _, _)
MatchClose(toks, k, depth) ==
    IF k > Len(toks) THEN 0
    ELSE IF toks[k] = <<"(">> THEN MatchClose(toks, k + 1, depth + 1)
    ELSE IF toks[k] = <<")">>
    THEN IF depth = 1 THEN k ELSE MatchClose(toks, k + 1, depth - 1)
    ELSE MatchClose(toks, k + 1, depth)

\* The run toks[k..last] cut into its terms, when every term is a purely
\* alphabetic variable or a parenthesized group.
RECURSIVE SplitTerms(_, _, _)
SplitTerms(toks, k, last) ==
    IF k > last THEN [ok |-> TRUE, terms |-> <<>>]
    ELSE IF str_isalpha(toks[k])
    THEN LET r == SplitTerms(toks, k + 1, last)
         IN [ok |-> r.ok, terms |-> << <<k, k>> >> \o r.terms]
    ELSE IF toks[k] = <<"(">>
    THEN LET m == MatchClose(toks, k + 1, 1)
         IN IF m = 0 \/ m > last THEN [ok |-> FALSE, terms |-> <<>>]
            ELSE LET r == SplitTerms(toks, m + 1, last)
                 IN [ok |-> r.ok, terms |-> << <<k, m>> >> \o r.terms]
    ELSE [ok |-> FALSE, terms |-> <<>>]

\* (((T1 T2) T3) ... TN)
RECURSIVE LeftNested(_, _)
LeftNested(acc, nodes) ==
    IF Len(nodes) = 0 THEN acc
    ELSE LeftNested([elem |-> ApplicationTag, children |-> <<acc, Head(nodes)>>], Tail(nodes))

\* The left-nested tree of the terms of the run toks[k..last], each term
\* parsed on its own.
NestedTerms(toks, k, last) ==
    LET sp == SplitTerms(toks, k, last)
        nodes == [n \in 1..Len(sp.terms) |->
                    parse_term(SubSeq(toks, sp.terms[n][1], sp.terms[n][2]), 0).node]
    IN LeftNested(nodes[1], Tail(nodes))

\* The run toks[k..last] is one the claim is about: two or more terms.
IsTermRun(toks, k, last) ==
    LET sp == SplitTerms(toks, k, last) IN sp.ok /\ Len(sp.terms) >= 2

\* C2: application is left-associative: a run of N >= 2 terms at one nesting
\* level, each an alphabetic variable or a parenthesized group, parses to
\* (((T1 T2) T3) ... TN), accumulated tree first and new term second; this
\* holds of the whole token sequence and of the inside of every group.
C2_ApplicationLeftAssociative ==
    Returned =>
        /\ (Parsed /\ IsTermRun(tokens, 1, Len(tokens))) =>
              /\ pos = Len(tokens)
              /\ tree = NestedTerms(tokens, 1, Len(tokens))
        /\ \A k \in 1..Len(tokens) :
              LET m == MatchClose(tokens, k + 1, 1)
                  r == parse_expr(tokens, k)
              IN (tokens[k] = <<"(">> /\ m > 0 /\ IsTermRun(tokens, k + 1, m - 1) /\ r.ok)
                    => /\ r.pos = m - 1
                       /\ r.node = NestedTerms(tokens, k + 1, m - 1)

C2_Witness ==
    /\ Parsed
    /\ LET sp == SplitTerms(tokens, 1, Len(tokens))
       IN /\ sp.ok
          /\ Len(sp.terms) >= 4
          /\ \E n \in 1..Len(sp.terms) : sp.terms[n][1] < sp.terms[n][2]
    /\ tree.elem = ApplicationTag
    /\ tree.children[1].elem = ApplicationTag
    /\ tree.children[1].children[1].elem = ApplicationTag

\* C3: a returned token sequence has as many '(' as ')' tokens and no prefix
\* with more ')' than '('; an input whose explicit open-paren counter (the
\* '(' characters minus the ')' characters scanned) is still positive at the
\* end of the input is rejected, not padded.
C3_TokensBalanced ==
    Returned =>
        /\ count(tokens, <<"(">>) = count(tokens, <<")">>)
        /\ \A k \in 1..Len(tokens) :
              count(SubSeq(tokens, 1, k), <<")">>) <= count(SubSeq(tokens, 1, k), <<"(">>)
        /\ count(s, "(") <= count(s, ")")

C3_Witness ==
    /\ Returned
    /\ count(s, "(") > 0
    /\ count(s, ".") > 0
    /\ count(tokens, <<")">>) > count(s, ")")

\* C4: no returned token sequence holds a '(' token immediately followed by
\* a ')' token.
C4_NoEmptyParentheses ==
    Returned =>
        \A k \in 1..(Len(tokens) - 1) : ~(tokens[k] = <<"(">> /\ tokens[k + 1] = <<")">>)

\* C5: at a '.', the tokenizer rejects with "must have a variable name
\* before '.'" exactly when the last emitted token is not a Variable or the
\* raw character before the dot is not an identifier character; otherwise
\* it appends a virtual '(' and leaves the explicit open-paren counter alone.
C5_DotNeedsVariable ==
    [][(Scanning /\ char = ".") =>
          IF \/ Len(tokens) = 0
             \/ ~IsVariableToken(tokens[Len(tokens)])
             \/ At(s, i - 1) \notin var_chars
          THEN pc' = "rejected" /\ diag'.kind = "MustHaveVariableBeforeDot"
          ELSE /\ diag'.kind # "MustHaveVariableBeforeDot"
               /\ tokens' = Append(tokens, <<"(">>)
               /\ open_parens' = open_parens]_vars

\* C6: parse_term turns every Variable token the tokenizer emits into a leaf
\* node carrying that name, advancing the cursor by exactly one.
C6_VariableTokenIsLeaf ==
    Returned =>
        \A k \in 1..Len(tokens) :
            IsVariableToken(tokens[k]) => parse_term(tokens, k - 1) = Ok(Node(tokens[k]), k)

\* The arity each tag requires, with the marker and bound-variable leaves in
\* their places.
RECURSIVE WellFormed(_)
WellFormed(node) ==
    \/ Len(node.children) = 0
    \/ /\ node.elem = ApplicationTag
       /\ Len(node.children) = 2
       /\ WellFormed(node.children[1])
       /\ WellFormed(node.children[2])
    \/ /\ node.elem = LambdaTag
       /\ Len(node.children) = 3
       /\ IsLeaf(node.children[1], <<"\\">>)
       /\ Len(node.children[2].children) = 0
       /\ str_isalpha(node.children[2].elem)
       /\ WellFormed(node.children[3])
    \/ /\ node.elem = ParensTag
       /\ Len(node.children) = 3
       /\ IsLeaf(node.children[1], <<"(">>)
       /\ WellFormed(node.children[2])
       /\ IsLeaf(node.children[3], <<")">>)

\* C7: every node of a tree returned by Parser.parse that has children has
\* the arity of its tag: 2 for 'application function', 3 for 'lambda'
\* ('\\' leaf, bound-variable leaf, body) and 3 for 'parens' ('(' leaf,
\* inner tree, ')' leaf); every other node has no children.
C7_ArityInvariant == Parsed => WellFormed(tree)

C7_Witness ==
    /\ Parsed
    /\ HasTag(tree, ApplicationTag)
    /\ HasTag(tree, LambdaTag)
    /\ HasTag(tree, ParensTag)

\* C8: a line whose parse raises is skipped like a rejected line: the loop
\* never stops on the error while later lines are still unread.
C8_FailedLineIsSkipped == ~(pc = "raised" /\ lineNo < numLines)

\* C9: on the tokenizer's output the parser never raises "Expected ), found
\* ...": whenever the parse_expr inside a group returns normally, the
\* current token is ')'.
C9_CloseAlwaysFound ==
    Returned =>
        /\ pc = "raised" => ~(err.kind = "Expected" /\ err.expected = <<")">>)
        /\ \A k \in 1..Len(tokens) :
              (tokens[k] = <<"(">> /\ parse_expr(tokens, k).ok)
                  => current_token(tokens, parse_expr(tokens, k).pos) = <<")">>

C9_Witness ==
    /\ pc = "parsed"
    /\ count(s, ".") > 0
    /\ \E k \in 1..Len(tokens) :
          /\ tokens[k] = <<"(">>
          /\ parse_expr(tokens, k).ok
          /\ parse_expr(tokens, k).pos = Len(tokens) - 1

\* '_'.join(tokens), written out directly.
RECURSIVE Underscored(_)
Underscored(toks) ==
    IF Len(toks) = 0 THEN <<>>
    ELSE IF Len(toks) = 1 THEN toks[1]
    ELSE toks[1] \o <<"_">> \o Underscored(Tail(toks))

\* C10: after a parse that returns, the cursor is at len(tokens) and the
\* rendering of the root (the first line print_tree writes) is the tokens
\* joined by '_' in their original order.
C10_RenderRoundTrip ==
    pc = "printed" =>
        /\ pos = Len(tokens)
        /\ out[1] = Underscored(tokens)

C10_Witness ==
    /\ pc = "printed"
    /\ tree.elem = ApplicationTag
    /\ HasTag(tree, ParensTag)
    /\ Len(out) > 1

====
